---- MODULE Spec2Model ----
(***************************************************************************)
(* The API Gateway REST API resource handler                               *)
(* (aws/resource_aws_api_gateway_rest_api.go): its Create, Read, Update    *)
(* and Delete callbacks and the diff-to-patch translator                   *)
(* resourceAwsApiGatewayRestApiUpdateOperations.                           *)
(*                                                                         *)
(* Conventions.  A Go string is a TLA+ string, except where the code works *)
(* on its characters (a binary media type, which is JSON-pointer escaped,  *)
(* and the policy of a GetRestApi answer, which is unquoted): those are    *)
(* sequences of one-character strings.  A Go pointer is a sequence of      *)
(* length 0 (nil) or 1.  An error result is a sequence of length 0 (nil)   *)
(* or 1.  A JSON-pointer path "/a/b" is the sequence of its tokens         *)
(* <<"a", "b">>.                                                           *)
(***************************************************************************)
EXTENDS Integers, Sequences, FiniteSets, TLC

VARIABLES
    d0,          \* the ResourceData handed to the handler
    d,           \* the ResourceData when the handler returned
    calls,       \* the remote calls the handler issued, in order, with their answers
    err,         \* the error the handler returned
    handler,     \* the entry point that ran
    answers,     \* what the remote service answers to the successive DeleteRestApi calls
    operations   \* the value of resourceAwsApiGatewayRestApiUpdateOperations

vars == <<d0, d, calls, err, handler, answers, operations>>

(***************************************************************************)
(* Bounds of the model.                                                    *)
(***************************************************************************)
\* longest binary_media_types list drawn as an input
MaxLen == 2
\* largest minimum_compression_size drawn as an input
MaxMcs == 10
\* number of attempts that fit into the 10 minute window of resource.Retry
MaxAttempts == 3

(***************************************************************************)
(* Strings and conversions.                                                *)
(***************************************************************************)
Digits == <<"0", "1", "2", "3", "4", "5", "6", "7", "8", "9">>

\* strconv.Itoa on a non-negative int
RECURSIVE Itoa(_)
Itoa(n) == IF n < 10 THEN Digits[n + 1]
           ELSE Itoa(n \div 10) \o Digits[(n % 10) + 1]

\* the Go string made of the characters cs
RECURSIVE Join(_)
Join(cs) == IF cs = <<>> THEN "" ELSE Head(cs) \o Join(Tail(cs))

\* strings.Replace(s, from, to, -1) for a one-character from
RECURSIVE ReplaceAll(_, _, _)
ReplaceAll(cs, from, to) ==
    IF cs = <<>> THEN <<>>
    ELSE (IF Head(cs) = from THEN to ELSE <<Head(cs)>>)
         \o ReplaceAll(Tail(cs), from, to)

\* escapeJsonPointer: "~" becomes "~0", then "/" becomes "~1" (RFC 6901)
escapeJsonPointer(cs) ==
    ReplaceAll(ReplaceAll(cs, "~", <<"~", "0">>), "/", <<"~", "1">>)

\* strconv.Unquote(`"` + s + `"`) on the characters the model draws:
\* a backslash escapes a quote or a backslash, a bare quote, a backslash
\* before "x" without hex digits and a trailing backslash are syntax errors
RECURSIVE Unquote(_)
Unquote(cs) ==
    IF cs = <<>> THEN [ok |-> TRUE, out |-> ""]
    ELSE IF Head(cs) = "\"" THEN [ok |-> FALSE, out |-> ""]
    ELSE IF Head(cs) = "\\"
         THEN IF Len(cs) >= 2 /\ cs[2] \in {"\"", "\\"}
              THEN LET rest == Unquote(SubSeq(cs, 3, Len(cs)))
                   IN  [ok |-> rest.ok, out |-> cs[2] \o rest.out]
              ELSE [ok |-> FALSE, out |-> ""]
    ELSE LET rest == Unquote(Tail(cs))
         IN  [ok |-> rest.ok, out |-> Head(cs) \o rest.out]

\* aws.StringValue: the string a *string points to, "" for nil
StringValue(p) == IF p = <<>> THEN "" ELSE p[1]

\* time.Time.Format(time.RFC3339) of the instant t seconds after the epoch,
\* UTC, for t below ten
FormatRFC3339(t) == "1970-01-01T00:00:0" \o Itoa(t) \o "Z"

(***************************************************************************)
(* Errors.                                                                 *)
(***************************************************************************)
\* an awserr.Error with the given code
AwsErr(code) == [msg |-> "", aws |-> TRUE, code |-> code]
\* an error that is no awserr.Error
PlainErr == [msg |-> "", aws |-> FALSE, code |-> "connection reset"]
\* fmt.Errorf(msg + ": %s", e) and errwrap.Wrapf(msg + ": {{err}}", e)
WrapErr(msg, e) == [msg |-> msg, aws |-> FALSE, code |-> e.code]

NotFound == AwsErr("NotFoundException")
Errors == {NotFound, AwsErr("TooManyRequestsException"),
           AwsErr("BadRequestException"), PlainErr}
\* the errors a later attempt can cure
Transient == {AwsErr("TooManyRequestsException"), PlainErr}

(***************************************************************************)
(* schema.ResourceData: the identifier, the prior state and the values     *)
(* d.Get returns (the planned values, overwritten by d.Set).               *)
(***************************************************************************)
EDGE == "EDGE"
REGIONAL == "REGIONAL"

EndpointConfigurations ==
    {<<>>, <<[types |-> <<EDGE>>]>>, <<[types |-> <<REGIONAL>>]>>}

MediaTypes == {<<"a", "/", "b">>, <<"~">>, <<"c">>}

RECURSIVE Lists(_, _)
Lists(S, n) == IF n = 0 THEN {<<>>}
               ELSE Lists(S, n - 1) \cup
                    {Append(l, x) : l \in {m \in Lists(S, n - 1) : Len(m) = n - 1}, x \in S}

\* the schema's default of minimum_compression_size
DefaultMinimumCompressionSize == -1

McsValues == {DefaultMinimumCompressionSize, 0, MaxMcs}

\* the zero value of every field of the schema
ZeroFields ==
    [name |-> "", description |-> "", policy |-> "",
     binary_media_types |-> <<>>, body |-> "",
     minimum_compression_size |-> 0,
     endpoint_configuration |-> <<>>,
     root_resource_id |-> "", created_date |-> "", execution_arn |-> ""]

\* d.Get(key)
Get(rd, key) == rd.vals[key]

\* the ok of d.GetOk(key): the value is set and not the zero value
GetOk(rd, key) == rd.vals[key] # ZeroFields[key]

\* the list at endpoint_configuration.0.types
Types(ec) == IF ec = <<>> THEN <<>> ELSE ec[1].types

\* d.HasChange(key): prior state against planned value; every caller asks
\* before the first d.Set of its invocation
HasChange(rd, key) ==
    IF key = "endpoint_configuration.0.types"
    THEN Types(rd.state.endpoint_configuration) # Types(rd.vals.endpoint_configuration)
    ELSE rd.state[key] # rd.vals[key]

\* d.Set(key, value)
Set(rd, key, value) == [rd EXCEPT !.vals[key] = value]

\* d.SetId(id)
SetId(rd, id) == [rd EXCEPT !.id = id]

(***************************************************************************)
(* resourceAwsApiGatewayRestApiUpdateOperations                            *)
(***************************************************************************)
PatchOperation(op, path, value) == [op |-> op, path |-> path, value |-> value]

\* one operation per entry of l, on /binaryMediaTypes/<escaped entry>
RECURSIVE BinaryMediaTypeOps(_, _)
BinaryMediaTypeOps(op, l) ==
    IF l = <<>> THEN <<>>
    ELSE <<PatchOperation(op, <<"binaryMediaTypes", Join(escapeJsonPointer(Head(l)))>>, <<>>)>>
         \o BinaryMediaTypeOps(op, Tail(l))

\* if d.HasChange("name")
NameOps(rd) ==
    IF HasChange(rd, "name")
    THEN <<PatchOperation("replace", <<"name">>, <<Get(rd, "name")>>)>>
    ELSE <<>>

\* if d.HasChange("description")
DescriptionOps(rd) ==
    IF HasChange(rd, "description")
    THEN <<PatchOperation("replace", <<"description">>, <<Get(rd, "description")>>)>>
    ELSE <<>>

\* if d.HasChange("policy")
PolicyOps(rd) ==
    IF HasChange(rd, "policy")
    THEN <<PatchOperation("replace", <<"policy">>, <<Get(rd, "policy")>>)>>
    ELSE <<>>

MinimumCompressionSizeOps_Decimal(rd) ==
    IF HasChange(rd, "minimum_compression_size")
    THEN LET minimumCompressionSize == Get(rd, "minimum_compression_size")
             value == IF minimumCompressionSize > -1
                      THEN Itoa(minimumCompressionSize) ELSE "-1"
         IN  <<PatchOperation("replace", <<"minimumCompressionSize">>, <<value>>)>>
    ELSE <<>>

\* if d.HasChange("minimum_compression_size")
MinimumCompressionSizeOps(rd) ==
    IF HasChange(rd, "minimum_compression_size")
    THEN LET minimumCompressionSize == Get(rd, "minimum_compression_size")
             value == IF minimumCompressionSize > -1
                      THEN Itoa(minimumCompressionSize) ELSE ""
         IN  <<PatchOperation("replace", <<"minimumCompressionSize">>, <<value>>)>>
    ELSE <<>>

\* the entries of l that are no entry of m, in l's order
RECURSIVE Without(_, _)
Without(l, m) ==
    IF l = <<>> THEN <<>>
    ELSE (IF \E i \in 1..Len(m) : m[i] = Head(l) THEN <<>> ELSE <<Head(l)>>)
         \o Without(Tail(l), m)

BinaryMediaTypesOps_Difference(rd) ==
    IF HasChange(rd, "binary_media_types")
    THEN LET old == rd.state.binary_media_types
             new == rd.vals.binary_media_types
         IN  BinaryMediaTypeOps("remove", Without(old, new))
             \o BinaryMediaTypeOps("add", Without(new, old))
    ELSE <<>>

\* if d.HasChange("binary_media_types")
BinaryMediaTypesOps(rd) ==
    IF HasChange(rd, "binary_media_types")
    THEN LET old == rd.state.binary_media_types
             new == rd.vals.binary_media_types
         IN  BinaryMediaTypeOps("remove", old)
             \o (IF Len(new) > 0 THEN BinaryMediaTypeOps("add", new) ELSE <<>>)
    ELSE <<>>

EndpointConfigurationOps_Clear(rd) ==
    IF HasChange(rd, "endpoint_configuration.0.types")
    THEN LET v == Get(rd, "endpoint_configuration")
         IN  IF GetOk(rd, "endpoint_configuration") /\ Len(v) > 0
             THEN <<PatchOperation("replace", <<"endpointConfiguration", "types", "0">>,
                                   <<v[1].types[1]>>)>>
             ELSE <<PatchOperation("remove", <<"endpointConfiguration", "types", "0">>, <<>>)>>
    ELSE <<>>

\* if d.HasChange("endpoint_configuration.0.types")
EndpointConfigurationOps(rd) ==
    IF HasChange(rd, "endpoint_configuration.0.types")
    THEN LET v == Get(rd, "endpoint_configuration")
         IN  IF GetOk(rd, "endpoint_configuration") /\ Len(v) > 0
             THEN <<PatchOperation("replace", <<"endpointConfiguration", "types", "0">>,
                                   <<v[1].types[1]>>)>>
             ELSE <<>>
    ELSE <<>>

UpdateOperations_PolicyFirst(rd) ==
    PolicyOps(rd) \o NameOps(rd) \o DescriptionOps(rd)
    \o MinimumCompressionSizeOps(rd) \o BinaryMediaTypesOps(rd)
    \o EndpointConfigurationOps(rd)

\* the operations, appended block by block in the order of the source
UpdateOperations(rd) ==
    NameOps(rd) \o DescriptionOps(rd) \o PolicyOps(rd)
    \o MinimumCompressionSizeOps(rd) \o BinaryMediaTypesOps(rd)
    \o EndpointConfigurationOps(rd)

(***************************************************************************)
(* The translator on its own: the prior state and the planned values are   *)
(* drawn, then resourceAwsApiGatewayRestApiUpdateOperations is applied.    *)
(***************************************************************************)
PriorStates ==
    {[ZeroFields EXCEPT !.name = "n1", !.description = "d1",
                        !.minimum_compression_size = m,
                        !.binary_media_types = b,
                        !.endpoint_configuration = e] :
        m \in {DefaultMinimumCompressionSize, MaxMcs},
        b \in Lists(MediaTypes, MaxLen),
        e \in {<<>>, <<[types |-> <<EDGE>>]>>}}

PlannedValues ==
    {[ZeroFields EXCEPT !.name = n, !.description = ds, !.policy = p,
                        !.minimum_compression_size = m,
                        !.binary_media_types = b,
                        !.endpoint_configuration = e] :
        n \in {"n1", "n2"}, ds \in {"", "d1"}, p \in {"", "{}"},
        m \in McsValues, b \in Lists(MediaTypes, MaxLen), e \in EndpointConfigurations}

InitOps ==
    /\ d \in {[id |-> "api1", state |-> s, vals |-> v] : s \in PriorStates, v \in PlannedValues}
    /\ d0 = d
    /\ answers = <<>>
    /\ calls = <<>>
    /\ err = <<>>
    /\ handler = "input"
    /\ operations = <<>>

ComputeOperations ==
    /\ handler = "input"
    /\ operations' = UpdateOperations(d)
    /\ handler' = "UpdateOperations"
    /\ UNCHANGED <<d0, d, calls, err, answers>>

NextOps == ComputeOperations

SpecOps == InitOps /\ [][NextOps]_vars

(***************************************************************************)
(* The remote service: what a call can answer.                             *)
(***************************************************************************)
\* a call as the log keeps it
Call(api, input, e) == [api |-> api, input |-> input, err |-> e]

\* nil or any error
Results == {<<>>} \cup {<<e>> : e \in Errors}

CreateRestApiAnswers ==
    {[err |-> <<>>, id |-> "api1"]} \cup {[err |-> <<e>>, id |-> ""] : e \in Errors}

GetResourcesAnswers ==
    {[err |-> <<>>, items |-> i] :
        i \in {<<>>,
               <<[path |-> "/", id |-> "root1"]>>,
               <<[path |-> "/pets", id |-> "res2"], [path |-> "/", id |-> "root1"],
                 [path |-> "/", id |-> "root3"]>>}}
    \cup {[err |-> <<e>>, items |-> <<>>] : e \in Errors}

\* GetRestApi outputs: nothing optional set; everything set, the policy
\* escaped one level; a policy that does not unquote
RestApis ==
    {[name |-> <<"n1">>, description |-> <<>>, policy |-> <<>>,
      binaryMediaTypes |-> <<>>, minimumCompressionSize |-> <<>>,
      createdDate |-> 0, endpointConfiguration |-> <<>>],
     [name |-> <<"n2">>, description |-> <<"d1">>,
      policy |-> <<<<"{", "\\", "\"", "x", "\\", "\"", "}">>>>,
      binaryMediaTypes |-> << <<"a", "/", "b">> >>, minimumCompressionSize |-> <<0>>,
      createdDate |-> 7, endpointConfiguration |-> <<[types |-> <<REGIONAL>>]>>],
     [name |-> <<"n1">>, description |-> <<>>, policy |-> <<<<"{", "\"">>>>,
      binaryMediaTypes |-> <<>>, minimumCompressionSize |-> <<>>,
      createdDate |-> 0, endpointConfiguration |-> <<>>]}

GetRestApiAnswers ==
    {[err |-> <<>>, api |-> a] : a \in RestApis}
    \cup {[err |-> <<e>>, api |-> <<>>] : e \in Errors}

\* the provider's AWSClient
Meta == [partition |-> "aws", region |-> "us-east-1", accountid |-> "123456789012"]

\* a handler's outcome: the ResourceData, the calls issued, the error returned
Run(rd, cs, e) == [d |-> rd, calls |-> cs, err |-> e]

(***************************************************************************)
(* expand / flatten                                                        *)
(***************************************************************************)
expandApiGatewayEndpointConfiguration(l) ==
    IF Len(l) = 0 THEN <<>> ELSE <<[Types |-> l[1].types]>>

flattenApiGatewayEndpointConfiguration(endpointConfiguration) ==
    IF endpointConfiguration = <<>> THEN <<>>
    ELSE <<[types |-> endpointConfiguration[1].types]>>

\* arn.ARN{...}.String()
ExecutionArn(id) ==
    "arn:" \o Meta.partition \o ":execute-api:" \o Meta.region \o ":"
    \o Meta.accountid \o ":" \o id

\* schema.ResourceData.State(): a record whose identifier is empty has no
\* state left, the host drops every field of it
State(rd) == IF rd.id = "" THEN <<>> ELSE <<rd.vals>>

(***************************************************************************)
(* resourceAwsApiGatewayRestApiRead                                        *)
(***************************************************************************)
\* the d.Set calls after a successful GetRestApi
ReadFields(rd, api) ==
    LET d1 == Set(Set(rd, "name", StringValue(api.name)),
                  "description", StringValue(api.description))
        policy == Unquote(IF api.policy = <<>> THEN <<>> ELSE api.policy[1])
    IN  IF ~policy.ok
        THEN [d |-> d1,
              err |-> <<[msg |-> "error unescaping policy", aws |-> FALSE,
                         code |-> "invalid syntax"]>>]
        ELSE LET d2 == Set(Set(Set(d1, "policy", policy.out),
                               "binary_media_types", api.binaryMediaTypes),
                           "execution_arn", ExecutionArn(rd.id))
                 d3 == IF api.minimumCompressionSize = <<>>
                       THEN Set(d2, "minimum_compression_size", -1)
                       ELSE Set(d2, "minimum_compression_size", api.minimumCompressionSize[1])
                 d4 == Set(d3, "created_date", FormatRFC3339(api.createdDate))
                 d5 == Set(d4, "endpoint_configuration",
                           flattenApiGatewayEndpointConfiguration(api.endpointConfiguration))
             IN  [d |-> d5, err |-> <<>>]

Read_NotFoundIsError(rd, cs, r) ==
    LET cs1 == Append(cs, Call("GetRestApi", [RestApiId |-> rd.id], r.err))
    IN  IF r.err # <<>>
        THEN Run(rd, cs1, r.err)
        ELSE LET f == ReadFields(rd, r.api) IN Run(f.d, cs1, f.err)

Read(rd, cs, r) ==
    LET cs1 == Append(cs, Call("GetRestApi", [RestApiId |-> rd.id], r.err))
    IN  IF r.err # <<>>
        THEN IF r.err[1].aws /\ r.err[1].code = "NotFoundException"
             THEN Run(SetId(rd, ""), cs1, <<>>)
             ELSE Run(rd, cs1, r.err)
        ELSE LET f == ReadFields(rd, r.api) IN Run(f.d, cs1, f.err)

(***************************************************************************)
(* resourceAwsApiGatewayRestApiRefreshResources                            *)
(***************************************************************************)
\* the range loop: the first item whose path is "/" sets root_resource_id
RECURSIVE SetRoot(_, _)
SetRoot(rd, items) ==
    IF items = <<>> THEN rd
    ELSE IF Head(items).path = "/" THEN Set(rd, "root_resource_id", Head(items).id)
    ELSE SetRoot(rd, Tail(items))

RefreshResources(rd, cs, r) ==
    LET cs1 == Append(cs, Call("GetResources", [RestApiId |-> rd.id], r.err))
    IN  IF r.err # <<>> THEN Run(rd, cs1, r.err)
        ELSE Run(SetRoot(rd, r.items), cs1, <<>>)

(***************************************************************************)
(* resourceAwsApiGatewayRestApiCreate                                      *)
(***************************************************************************)
CreateRestApiInput_SendsSentinel(rd) ==
    [Name |-> <<Get(rd, "name")>>,
     Description |-> IF Get(rd, "description") # "" THEN <<Get(rd, "description")>> ELSE <<>>,
     EndpointConfiguration |->
         IF GetOk(rd, "endpoint_configuration")
         THEN expandApiGatewayEndpointConfiguration(Get(rd, "endpoint_configuration"))
         ELSE <<>>,
     Policy |-> IF GetOk(rd, "policy") /\ Get(rd, "policy") # ""
                THEN <<Get(rd, "policy")>> ELSE <<>>,
     BinaryMediaTypes |-> IF GetOk(rd, "binary_media_types")
                          THEN <<Get(rd, "binary_media_types")>> ELSE <<>>,
     MinimumCompressionSize |-> IF Get(rd, "minimum_compression_size") >= -1
                                THEN <<Get(rd, "minimum_compression_size")>> ELSE <<>>]

\* params, as built before the CreateRestApi call
CreateRestApiInput(rd) ==
    [Name |-> <<Get(rd, "name")>>,
     Description |-> IF Get(rd, "description") # "" THEN <<Get(rd, "description")>> ELSE <<>>,
     EndpointConfiguration |->
         IF GetOk(rd, "endpoint_configuration")
         THEN expandApiGatewayEndpointConfiguration(Get(rd, "endpoint_configuration"))
         ELSE <<>>,
     Policy |-> IF GetOk(rd, "policy") /\ Get(rd, "policy") # ""
                THEN <<Get(rd, "policy")>> ELSE <<>>,
     BinaryMediaTypes |-> IF GetOk(rd, "binary_media_types")
                          THEN <<Get(rd, "binary_media_types")>> ELSE <<>>,
     MinimumCompressionSize |-> IF Get(rd, "minimum_compression_size") > -1
                                THEN <<Get(rd, "minimum_compression_size")>> ELSE <<>>]

PutRestApiInput(rd) ==
    [RestApiId |-> rd.id, Mode |-> "overwrite", Body |-> Get(rd, "body")]

CreateBody_DropsId(rd, cs, e) ==
    IF GetOk(rd, "body")
    THEN LET cs1 == Append(cs, Call("PutRestApi", PutRestApiInput(rd), e))
         IN  IF e # <<>>
             THEN Run(SetId(rd, ""), cs1,
                      <<WrapErr("Error creating API Gateway specification", e[1])>>)
             ELSE Run(rd, cs1, <<>>)
    ELSE Run(rd, cs, <<>>)

CreateBody_IgnoresError(rd, cs, e) ==
    IF GetOk(rd, "body")
    THEN Run(rd, Append(cs, Call("PutRestApi", PutRestApiInput(rd), e)), <<>>)
    ELSE Run(rd, cs, <<>>)

\* if body, ok := d.GetOk("body"); ok { PutRestApi }
CreateBody(rd, cs, e) ==
    IF GetOk(rd, "body")
    THEN LET cs1 == Append(cs, Call("PutRestApi", PutRestApiInput(rd), e))
         IN  IF e # <<>>
             THEN Run(rd, cs1, <<WrapErr("Error creating API Gateway specification", e[1])>>)
             ELSE Run(rd, cs1, <<>>)
    ELSE Run(rd, cs, <<>>)

\* r: the answers of CreateRestApi, PutRestApi, GetResources and GetRestApi
Create(rd, r) ==
    LET cs1 == <<Call("CreateRestApi", CreateRestApiInput(rd), r.create.err)>>
    IN  IF r.create.err # <<>>
        THEN Run(rd, cs1, <<WrapErr("Error creating API Gateway", r.create.err[1])>>)
        ELSE LET body == CreateBody(SetId(rd, r.create.id), cs1, r.put)
             IN  IF body.err # <<>> THEN body
                 ELSE LET refresh == RefreshResources(body.d, body.calls, r.resources)
                      IN  IF refresh.err # <<>> THEN refresh
                          ELSE Read(refresh.d, refresh.calls, r.get)

(***************************************************************************)
(* resourceAwsApiGatewayRestApiUpdate                                      *)
(***************************************************************************)
UpdateBody_AnyChange(rd, cs, e) ==
    IF HasChange(rd, "body")
    THEN LET cs1 == Append(cs, Call("PutRestApi", PutRestApiInput(rd), e))
         IN  IF e # <<>>
             THEN Run(rd, cs1, <<WrapErr("Error updating API Gateway specification", e[1])>>)
             ELSE Run(rd, cs1, <<>>)
    ELSE Run(rd, cs, <<>>)

\* if d.HasChange("body") { if body, ok := d.GetOk("body"); ok { PutRestApi } }
UpdateBody(rd, cs, e) ==
    IF HasChange(rd, "body") /\ GetOk(rd, "body")
    THEN LET cs1 == Append(cs, Call("PutRestApi", PutRestApiInput(rd), e))
         IN  IF e # <<>>
             THEN Run(rd, cs1, <<WrapErr("Error updating API Gateway specification", e[1])>>)
             ELSE Run(rd, cs1, <<>>)
    ELSE Run(rd, cs, <<>>)

\* r: the answers of PutRestApi, UpdateRestApi and GetRestApi
Update(rd, r) ==
    LET body == UpdateBody(rd, <<>>, r.put)
    IN  IF body.err # <<>> THEN body
        ELSE LET cs1 == Append(body.calls,
                               Call("UpdateRestApi",
                                    [RestApiId |-> rd.id,
                                     PatchOperations |-> UpdateOperations(rd)],
                                    r.update))
             IN  IF r.update # <<>> THEN Run(rd, cs1, r.update)
                 ELSE Read(rd, cs1, r.get)

(***************************************************************************)
(* resourceAwsApiGatewayRestApiDelete                                      *)
(***************************************************************************)
\* resource.NonRetryableError(e): a *resource.RetryError that ends the loop
NonRetryableError(e) == <<[Err |-> e, Retryable |-> FALSE]>>

DeleteAttempt_NotFoundIsError(e) ==
    IF e = <<>> THEN <<>> ELSE NonRetryableError(e[1])

\* the function handed to resource.Retry, on the answer e of DeleteRestApi
DeleteAttempt(e) ==
    IF e = <<>> THEN <<>>
    ELSE IF e[1].aws /\ e[1].code = "NotFoundException" THEN <<>>
    ELSE NonRetryableError(e[1])

\* resource.Retry(10*time.Minute, f): f runs again while it returns a
\* retryable error and the window lasts; es are the answers the remote
\* service gives within the window
RECURSIVE Retry(_, _, _)
Retry(rd, cs, es) ==
    LET cs1 == Append(cs, Call("DeleteRestApi", [RestApiId |-> rd.id], Head(es)))
        re  == DeleteAttempt(Head(es))
    IN  IF re = <<>> THEN Run(rd, cs1, <<>>)
        ELSE IF ~re[1].Retryable THEN Run(rd, cs1, <<re[1].Err>>)
        ELSE IF Len(es) = 1 THEN Run(rd, cs1, <<re[1].Err>>)
        ELSE Retry(rd, cs1, Tail(es))

Delete(rd, es) == Retry(rd, <<>>, es)

(***************************************************************************)
(* The handlers as the host calls them, one invocation per behaviour.      *)
(* Every invocation gets its own ResourceData: a new resource has no       *)
(* identifier and no prior state, an existing one has both.                *)
(***************************************************************************)
Configs ==
    {[ZeroFields EXCEPT !.name = n, !.description = ds, !.policy = p,
                        !.minimum_compression_size = m, !.body = b,
                        !.binary_media_types = t, !.endpoint_configuration = e] :
        n \in {"n1", "n2"}, ds \in {"", "d1"}, p \in {"", "{}"},
        m \in McsValues, b \in {"", "b1"},
        t \in {<<>>, << <<"a", "/", "b">> >>},
        e \in {<<>>, <<[types |-> <<EDGE>>]>>}}

\* what an earlier apply left in the state of an existing resource
Existing ==
    {[name |-> "n1", description |-> "d1", policy |-> "",
      binary_media_types |-> << <<"a", "/", "b">> >>, body |-> b,
      minimum_compression_size |-> m,
      endpoint_configuration |-> <<[types |-> <<EDGE>>]>>,
      root_resource_id |-> "root1", created_date |-> FormatRFC3339(0),
      execution_arn |-> ExecutionArn("api1")] :
        b \in {"", "b0"}, m \in {DefaultMinimumCompressionSize, MaxMcs}}

\* the planned values of an update: the configuration, the computed fields kept
Planned(s, c) ==
    [c EXCEPT !.root_resource_id = s.root_resource_id,
              !.created_date = s.created_date,
              !.execution_arn = s.execution_arn]

Init ==
    /\ d0 = [id |-> "", state |-> ZeroFields, vals |-> ZeroFields]
    /\ d = d0
    /\ calls = <<>>
    /\ err = <<>>
    /\ handler = "none"
    /\ answers = <<>>
    /\ operations = <<>>

DoCreate ==
    /\ handler = "none"
    /\ \E c \in Configs, cr \in CreateRestApiAnswers, pr \in Results,
          rr \in GetResourcesAnswers, gr \in GetRestApiAnswers :
           LET rd  == [id |-> "", state |-> ZeroFields, vals |-> c]
               run == Create(rd, [create |-> cr, put |-> pr, resources |-> rr, get |-> gr])
           IN  /\ d0' = rd
               /\ d' = run.d
               /\ calls' = run.calls
               /\ err' = run.err
    /\ handler' = "Create"
    /\ UNCHANGED <<answers, operations>>

DoRead ==
    /\ handler = "none"
    /\ \E s \in Existing, gr \in GetRestApiAnswers :
           LET rd  == [id |-> "api1", state |-> s, vals |-> s]
               run == Read(rd, <<>>, gr)
           IN  /\ d0' = rd
               /\ d' = run.d
               /\ calls' = run.calls
               /\ err' = run.err
    /\ handler' = "Read"
    /\ UNCHANGED <<answers, operations>>

DoUpdate ==
    /\ handler = "none"
    /\ \E s \in Existing, c \in Configs, pr \in Results, ur \in Results,
          gr \in GetRestApiAnswers :
           LET rd  == [id |-> "api1", state |-> s, vals |-> Planned(s, c)]
               run == Update(rd, [put |-> pr, update |-> ur, get |-> gr])
           IN  /\ d0' = rd
               /\ d' = run.d
               /\ calls' = run.calls
               /\ err' = run.err
    /\ handler' = "Update"
    /\ UNCHANGED <<answers, operations>>

DoDelete ==
    /\ handler = "none"
    /\ \E s \in Existing, es \in [1..MaxAttempts -> Results] :
           LET rd  == [id |-> "api1", state |-> s, vals |-> s]
               run == Delete(rd, es)
           IN  /\ d0' = rd
               /\ d' = run.d
               /\ calls' = run.calls
               /\ err' = run.err
               /\ answers' = es
    /\ handler' = "Delete"
    /\ UNCHANGED operations

Next == DoCreate \/ DoRead \/ DoUpdate \/ DoDelete

Spec == Init /\ [][Next]_vars

(***************************************************************************)
(* Properties of the translator, checked under SpecOps.                    *)
(***************************************************************************)
\* the position of an operation's field in the fixed order
Rank(o) ==
    CASE o.path[1] = "name" -> 1
      [] o.path[1] = "description" -> 2
      [] o.path[1] = "policy" -> 3
      [] o.path[1] = "minimumCompressionSize" -> 4
      [] o.path[1] = "binaryMediaTypes" -> 5
      [] o.path[1] = "endpointConfiguration" -> 6
      [] OTHER -> 0

\* the operations of ops on the paths below /token
OpsOn(ops, token) == SelectSeq(ops, LAMBDA o : o.path[1] = token)

Translated == handler = "UpdateOperations"

\* C1: the operations come grouped per field in the order name, description,
\* policy, minimum-compression-size, binary-media-types,
\* endpoint-configuration-type; an unchanged field contributes no operation;
\* a changed name, description or policy contributes exactly one "replace"
\* carrying the new value.
C1_FixedOrder ==
    Translated =>
        /\ \A i, j \in 1..Len(operations) :
               i < j => 1 <= Rank(operations[i]) /\ Rank(operations[i]) <= Rank(operations[j])
        /\ \A k \in {"name", "description", "policy"} :
               OpsOn(operations, k) =
                   IF HasChange(d, k)
                   THEN <<[op |-> "replace", path |-> <<k>>, value |-> <<d.vals[k]>>]>>
                   ELSE <<>>
        /\ ~HasChange(d, "minimum_compression_size")
               => OpsOn(operations, "minimumCompressionSize") = <<>>
        /\ ~HasChange(d, "binary_media_types")
               => OpsOn(operations, "binaryMediaTypes") = <<>>
        /\ ~HasChange(d, "endpoint_configuration.0.types")
               => OpsOn(operations, "endpointConfiguration") = <<>>

\* every field changed at once: six groups, in order
C1_Witness ==
    /\ Translated
    /\ \A k \in {"name", "description", "policy", "minimum_compression_size",
                 "binary_media_types", "endpoint_configuration.0.types"} : HasChange(d, k)
    /\ d.vals.endpoint_configuration # <<>>
    /\ {Rank(operations[i]) : i \in 1..Len(operations)} = 1..6

\* C2: a changed binary_media_types gives one "remove" per old entry in the
\* old order, then one "add" per new entry in the new order, whatever the
\* two lists share; no remove follows an add.
C2_RemoveAllThenAddAll ==
    (Translated /\ HasChange(d, "binary_media_types")) =>
        LET old == d.state.binary_media_types
            new == d.vals.binary_media_types
            g   == OpsOn(operations, "binaryMediaTypes")
        IN  /\ Len(g) = Len(old) + Len(new)
            /\ \A i \in 1..Len(old) :
                   g[i] = [op |-> "remove",
                           path |-> <<"binaryMediaTypes", Join(escapeJsonPointer(old[i]))>>,
                           value |-> <<>>]
            /\ \A i \in 1..Len(new) :
                   g[Len(old) + i] =
                          [op |-> "add",
                           path |-> <<"binaryMediaTypes", Join(escapeJsonPointer(new[i]))>>,
                           value |-> <<>>]
            /\ \A i, j \in 1..Len(g) : (g[i].op = "add" /\ i < j) => g[j].op # "remove"

\* old {A, B}, new {B, C}: remove(A), remove(B), add(B), add(C)
C2_Witness ==
    /\ Translated
    /\ d.state.binary_media_types = << <<"a", "/", "b">>, <<"~">> >>
    /\ d.vals.binary_media_types = << <<"~">>, <<"c">> >>
    /\ OpsOn(operations, "binaryMediaTypes") =
           << [op |-> "remove", path |-> <<"binaryMediaTypes", "a~1b">>, value |-> <<>>],
              [op |-> "remove", path |-> <<"binaryMediaTypes", "~0">>, value |-> <<>>],
              [op |-> "add", path |-> <<"binaryMediaTypes", "~0">>, value |-> <<>>],
              [op |-> "add", path |-> <<"binaryMediaTypes", "c">>, value |-> <<>>] >>

\* C8: an endpoint-configuration change to the empty configuration gives no
\* operation on that field; a changed type with a non-empty new
\* configuration gives exactly one "replace" on
\* /endpointConfiguration/types/0 with the new type.
C8_EndpointConfiguration ==
    (Translated /\ HasChange(d, "endpoint_configuration.0.types")) =>
        LET new == d.vals.endpoint_configuration
            g   == OpsOn(operations, "endpointConfiguration")
        IN  IF new = <<>>
            THEN g = <<>>
            ELSE g = <<[op |-> "replace",
                        path |-> <<"endpointConfiguration", "types", "0">>,
                        value |-> <<new[1].types[1]>>]>>

\* the configuration is cleared: EDGE before, nothing planned
C8_Witness ==
    /\ Translated
    /\ d.state.endpoint_configuration = <<[types |-> <<EDGE>>]>>
    /\ d.vals.endpoint_configuration = <<>>
    /\ HasChange(d, "endpoint_configuration.0.types")
    /\ OpsOn(operations, "endpointConfiguration") = <<>>

(***************************************************************************)
(* Properties of the handlers, checked under Spec.                         *)
(***************************************************************************)
\* the names of the calls of a log, in order
RECURSIVE Names(_)
Names(cs) == IF cs = <<>> THEN <<>> ELSE <<Head(cs).api>> \o Names(Tail(cs))

IsPrefix(s, t) == Len(s) <= Len(t) /\ SubSeq(t, 1, Len(s)) = s

\* the first attempt whose answer is no transient error, 0 if there is none
RECURSIVE FirstFinal(_, _)
FirstFinal(es, i) ==
    IF i > Len(es) THEN 0
    ELSE IF es[i] # <<>> /\ es[i][1] \in Transient THEN FirstFinal(es, i + 1)
    ELSE i

\* C3: a DeleteRestApi that fails with a transient error is issued again,
\* and Delete returns success once a later attempt succeeds; a non-transient
\* error aborts at once.
C3_RetriedUntilSuccess ==
    handler = "Delete" =>
        LET k == FirstFinal(answers, 1)
        IN  k > 0 =>
                /\ Len(calls) = k
                /\ err = IF answers[k] \in {<<>>, <<NotFound>>} THEN <<>> ELSE answers[k]

\* C4: a DeleteRestApi answer NotFoundException makes Delete return success,
\* and no call follows it.
C4_NotFoundIsSuccess ==
    handler = "Delete" =>
        \A i \in 1..Len(calls) :
            calls[i].err = <<NotFound>> => (i = Len(calls) /\ err = <<>>)

\* the object is already absent, although a later attempt would have failed
C4_Witness ==
    /\ handler = "Delete"
    /\ Names(calls) = <<"DeleteRestApi">>
    /\ calls[1].err = <<NotFound>>
    /\ answers[2] = <<AwsErr("BadRequestException")>>
    /\ err = <<>>

\* C5: a GetRestApi answer NotFoundException makes Read clear the identifier,
\* so that no field of the record is left in the state, and return no error;
\* any other GetRestApi error is returned and the record is left as it was.
C5_ReadNotFound ==
    handler = "Read" =>
        LET e == calls[1].err
        IN  /\ e = <<NotFound>> => (d.id = "" /\ State(d) = <<>> /\ err = <<>>)
            /\ (e # <<>> /\ e # <<NotFound>>) => (err = e /\ d = d0)

\* an existing record read while the remote object is gone
C5_Witness ==
    /\ handler = "Read"
    /\ State(d0) # <<>>
    /\ calls[1].err = <<NotFound>>
    /\ State(d) = <<>>
    /\ err = <<>>

\* the operations a logged UpdateRestApi call carries on /minimumCompressionSize
SizeOps(c) == OpsOn(c.input.PatchOperations, "minimumCompressionSize")

\* C6, as claimed: with minimum_compression_size = -1 neither the create
\* request nor the patch list mentions the field.
C6_NeverSent ==
    (handler \in {"Create", "Update"} /\ d0.vals.minimum_compression_size = -1) =>
        \A i \in 1..Len(calls) :
            /\ calls[i].api = "CreateRestApi" => calls[i].input.MinimumCompressionSize = <<>>
            /\ calls[i].api = "UpdateRestApi" => SizeOps(calls[i]) = <<>>

\* C6, amended: with minimum_compression_size = -1 the create request omits
\* the field; the patch list has no operation on /minimumCompressionSize when
\* the field is unchanged and exactly one "replace" with the empty string as
\* its value when it changed.
C6_SentinelOmittedOrEmpty ==
    (handler \in {"Create", "Update"} /\ d0.vals.minimum_compression_size = -1) =>
        \A i \in 1..Len(calls) :
            /\ calls[i].api = "CreateRestApi" => calls[i].input.MinimumCompressionSize = <<>>
            /\ calls[i].api = "UpdateRestApi" =>
                   SizeOps(calls[i]) =
                       IF HasChange(d0, "minimum_compression_size")
                       THEN <<[op |-> "replace", path |-> <<"minimumCompressionSize">>,
                               value |-> <<"">>]>>
                       ELSE <<>>

\* compression is switched off by an update
C6_Witness ==
    /\ handler = "Update"
    /\ d0.state.minimum_compression_size = MaxMcs
    /\ d0.vals.minimum_compression_size = -1
    /\ \E i \in 1..Len(calls) :
           calls[i].api = "UpdateRestApi" /\ Len(SizeOps(calls[i])) = 1

\* C7: when CreateRestApi succeeds and PutRestApi fails, Create returns an
\* error and the record keeps the identifier the service assigned; when
\* CreateRestApi fails, no identifier is assigned.
C7_PartialCreateKeepsId ==
    handler = "Create" =>
        /\ calls[1].err # <<>> => (d.id = "" /\ err # <<>>)
        /\ (calls[1].err = <<>> /\ Len(calls) >= 2 /\ calls[2].api = "PutRestApi"
            /\ calls[2].err # <<>>)
               => (err # <<>> /\ d.id = "api1" /\ d.id # "")

\* the body upload fails after the object was created
C7_Witness ==
    /\ handler = "Create"
    /\ Names(calls) = <<"CreateRestApi", "PutRestApi">>
    /\ calls[1].err = <<>>
    /\ calls[2].err # <<>>
    /\ err # <<>>
    /\ d.id = "api1"

\* the calls of an Update after the body upload
AfterPut(cs) == IF cs # <<>> /\ cs[1].api = "PutRestApi" THEN Tail(cs) ELSE cs

\* C9, as claimed: a changed body is uploaded (PutRestApi, overwrite) before
\* the patch call; the patch call is always issued; GetRestApi is issued
\* after, and only after, the patch call succeeded.
C9_AlwaysPatched ==
    handler = "Update" =>
        /\ HasChange(d0, "body") =>
               (calls[1].api = "PutRestApi" /\ calls[1].input.Mode = "overwrite")
        /\ \E i \in 1..Len(calls) : calls[i].api = "UpdateRestApi"
        /\ \A i \in 1..Len(calls) :
               calls[i].api = "GetRestApi" =>
                   (i > 1 /\ calls[i - 1].api = "UpdateRestApi" /\ calls[i - 1].err = <<>>)
        /\ \A i \in 1..Len(calls) :
               (calls[i].api = "UpdateRestApi" /\ calls[i].err = <<>>) =>
                   (i < Len(calls) /\ calls[i + 1].api = "GetRestApi")

\* C9, amended: a body that changed to a non-empty document is uploaded
\* (PutRestApi, overwrite) first, and nothing else is; when that upload fails
\* Update returns its error and issues no other call; otherwise the patch
\* call is issued, also with an empty operation list; GetRestApi is issued
\* after, and only after, the patch call succeeded.
C9_PatchedUnlessUploadFails ==
    handler = "Update" =>
        LET upload == HasChange(d0, "body") /\ d0.vals.body # ""
            rest   == AfterPut(calls)
        IN  /\ calls # <<>>
            /\ upload <=> calls[1].api = "PutRestApi"
            /\ upload => calls[1].input = [RestApiId |-> d0.id, Mode |-> "overwrite",
                                           Body |-> d0.vals.body]
            /\ IF upload /\ calls[1].err # <<>>
               THEN rest = <<>> /\ err # <<>> /\ err[1].code = calls[1].err[1].code
               ELSE /\ rest # <<>>
                    /\ rest[1].api = "UpdateRestApi"
                    /\ rest[1].input.PatchOperations = UpdateOperations(d0)
                    /\ IF rest[1].err = <<>>
                       THEN Names(rest) = <<"UpdateRestApi", "GetRestApi">>
                       ELSE Names(rest) = <<"UpdateRestApi">> /\ err = rest[1].err

\* only the body changed: upload, a patch call with no operation, read-back
C9_Witness ==
    /\ handler = "Update"
    /\ Names(calls) = <<"PutRestApi", "UpdateRestApi", "GetRestApi">>
    /\ calls[2].input.PatchOperations = <<>>

\* the calls of a Create in which nothing fails
CreateCalls(rd) ==
    <<"CreateRestApi">> \o (IF rd.vals.body # "" THEN <<"PutRestApi">> ELSE <<>>)
    \o <<"GetResources", "GetRestApi">>

\* the calls of a Create follow CreateCalls, each after the success of all
\* earlier ones, and stop early only at a failure
CreateInOrder ==
    /\ calls # <<>>
    /\ IsPrefix(Names(calls), CreateCalls(d0))
    /\ \A i \in 1..(Len(calls) - 1) : calls[i].err = <<>>
    /\ Len(calls) < Len(CreateCalls(d0)) => calls[Len(calls)].err # <<>>

\* C10, as claimed: CreateRestApi, PutRestApi exactly when a body was
\* supplied, GetResources, GetRestApi, each only after the success of all
\* earlier calls, and the first failure is returned.
C10_FirstFailureReturned ==
    handler = "Create" =>
        /\ CreateInOrder
        /\ calls[Len(calls)].err # <<>> =>
               (err # <<>> /\ err[1].code = calls[Len(calls)].err[1].code)

\* C10, amended: the same order; the first failure is returned, except that
\* a NotFoundException of the final GetRestApi clears the identifier and
\* Create returns no error.
C10_FirstFailureReturnedButNotFound ==
    handler = "Create" =>
        /\ CreateInOrder
        /\ LET last == calls[Len(calls)]
           IN  last.err # <<>> =>
                   IF last.api = "GetRestApi" /\ last.err = <<NotFound>>
                   THEN err = <<>> /\ d.id = ""
                   ELSE err # <<>> /\ err[1].code = last.err[1].code

\* a Create with a body in which all four calls are issued
C10_Witness ==
    /\ handler = "Create"
    /\ Names(calls) = <<"CreateRestApi", "PutRestApi", "GetResources", "GetRestApi">>
    /\ err = <<>>
    /\ d.id = "api1"
    /\ d.vals.root_resource_id = "root1"

====
